---- MODULE Spec2Model ----
(***************************************************************************)
(* Model of the cached earthquake-feed fetcher of main.py: the feed        *)
(* catalog, the on-disk cache (directory, one file per feed URL, file      *)
(* modification times), the clock, and the two exposed operations          *)
(* fetch_earthquake_data and get_available_feeds.                          *)
(***************************************************************************)
EXTENDS Integers, Sequences, FiniteSets, TLC

(* ------------------------------ bounds --------------------------------- *)
\* number of exposed-operation calls in one behaviour
MaxCalls == 2
\* number of clock advances in one behaviour
MaxTicks == 1
\* number of catalog feeds (a prefix of the table) that callers ask for
MaxFeeds == 2
\* number of callers that run fetch_earthquake_data at the same time
MaxCallers == 2
\* most tokens a cache write that fails midway leaves in the file (a write
\* that raises has not put the whole text there)
MaxPartial == 1

(* ------------------------- program constants --------------------------- *)
CACHE_DIR == "cache"
CACHE_DURATION == 3600

(* ---------------------------- feed catalog ----------------------------- *)
\* the feed_urls table of fetch_earthquake_data, in the order it is written
\* (a repeated key of a dict literal keeps its last value)
feed_urls_items ==
  << <<"significant_hour",
       "https://earthquake.usgs.gov/earthquakes/feed/v1.0/summary/significant_hour.geojson">>,
     <<"significant_day",
       "https://earthquake.usgs.gov/earthquakes/feed/v1.0/summary/significant_day.geojson">>,
     <<"significant_week",
       "https://earthquake.usgs.gov/earthquakes/feed/v1.0/summary/significant_week.geojson">>,
     <<"significant_month",
       "https://earthquake.usgs.gov/earthquakes/feed/v1.0/summary/significant_month.geojson">>,
     <<"4.5_hour",
       "https://earthquake.usgs.gov/earthquakes/feed/v1.0/summary/4.5_hour.geojson">>,
     <<"4.5_day",
       "https://earthquake.usgs.gov/earthquakes/feed/v1.0/summary/4.5_day.geojson">>,
     <<"4.5_week",
       "https://earthquake.usgs.gov/earthquakes/feed/v1.0/summary/4.5_week.geojson">>,
     <<"4.5_month",
       "https://earthquake.usgs.gov/earthquakes/feed/v1.0/summary/4.5_month.geojson">>,
     <<"2.5_hour",
       "https://earthquake.usgs.gov/earthquakes/feed/v1.0/summary/2.5_hour.geojson">>,
     <<"2.5_day",
       "https://earthquake.usgs.gov/earthquakes/feed/v1.0/summary/2.5_day.geojson">>,
     <<"2.5_week",
       "https://earthquake.usgs.gov/earthquakes/feed/v1.0/summary/2.5_week.geojson">>,
     <<"2.5_month",
       "https://earthquake.usgs.gov/earthquakes/feed/v1.0/summary/2.5_month.geojson">>,
     <<"1.0_hour",
       "https://earthquake.usgs.gov/earthquakes/feed/v1.0/summary/1.0_hour.geojson">>,
     <<"1.0_day",
       "https://earthquake.usgs.gov/earthquakes/feed/v1.0/summary/1.0_day.geojson">>,
     <<"1.0_week",
       "https://earthquake.usgs.gov/earthquakes/feed/v1.0/summary/1.0_week.geojson">>,
     <<"1.0_month",
       "https://earthquake.usgs.gov/earthquakes/feed/v1.0/summary/1.0_month.geojson">>,
     <<"all_hour",
       "https://earthquake.usgs.gov/earthquakes/feed/v1.0/summary/all_hour.geojson">>,
     <<"all_day",
       "https://earthquake.usgs.gov/earthquakes/feed/v1.0/summary/all_day.geojson">>,
     <<"all_week",
       "https://earthquake.usgs.gov/earthquakes/feed/v1.0/summary/all_week.geojson">>,
     <<"all_month",
       "https://earthquake.usgs.gov/earthquakes/feed/v1.0/summary/all_month.geojson">> >>

\* feed_urls as a mapping: feed_type in feed_urls, feed_urls[feed_type]
feed_urls ==
  [ k \in { feed_urls_items[i][1] : i \in DOMAIN feed_urls_items } |->
      LET i == CHOOSE j \in DOMAIN feed_urls_items :
                 /\ feed_urls_items[j][1] = k
                 /\ \A m \in DOMAIN feed_urls_items :
                      feed_urls_items[m][1] = k => m <= j
      IN feed_urls_items[i][2] ]

\* the list with two neighbours exchanged
get_available_feeds_swapped ==
  << "significant_hour", "significant_day", "significant_week", "significant_month",
     "4.5_day", "4.5_hour", "4.5_week", "4.5_month",
     "2.5_hour", "2.5_day", "2.5_week", "2.5_month",
     "1.0_hour", "1.0_day", "1.0_week", "1.0_month",
     "all_hour", "all_day", "all_week", "all_month" >>

\* the list returned by get_available_feeds
get_available_feeds ==
  << "significant_hour", "significant_day", "significant_week", "significant_month",
     "4.5_hour", "4.5_day", "4.5_week", "4.5_month",
     "2.5_hour", "2.5_day", "2.5_week", "2.5_month",
     "1.0_hour", "1.0_day", "1.0_week", "1.0_month",
     "all_hour", "all_day", "all_week", "all_month" >>

\* the digest of the empty string for every URL: the URL is not hashed
md5_of_nothing ==
  [ u \in { feed_urls_items[i][2] : i \in DOMAIN feed_urls_items } |->
      "d41d8cd98f00b204e9800998ecf8427e" ]

\* hashlib.md5(feed_url.encode()).hexdigest(), tabulated on the catalog URLs
md5 ==
  ("https://earthquake.usgs.gov/earthquakes/feed/v1.0/summary/significant_hour.geojson" :>
     "c97fa42ce8ba17ff7aaf95e4e1a442dd") @@
  ("https://earthquake.usgs.gov/earthquakes/feed/v1.0/summary/significant_day.geojson" :>
     "f16f4194844233503b6d4d53e32714b6") @@
  ("https://earthquake.usgs.gov/earthquakes/feed/v1.0/summary/significant_week.geojson" :>
     "3294f4396eff23d3c9622976cd433d60") @@
  ("https://earthquake.usgs.gov/earthquakes/feed/v1.0/summary/significant_month.geojson" :>
     "703c7ced7cacd03aac9b98337af5cd1b") @@
  ("https://earthquake.usgs.gov/earthquakes/feed/v1.0/summary/4.5_hour.geojson" :>
     "7c8ecf41e80049e14b8b7b1e919c5369") @@
  ("https://earthquake.usgs.gov/earthquakes/feed/v1.0/summary/4.5_day.geojson" :>
     "52fe29a3c3c3238d81807527e9f32e27") @@
  ("https://earthquake.usgs.gov/earthquakes/feed/v1.0/summary/4.5_week.geojson" :>
     "d66f539bea15742ef8c3b7abf7e04894") @@
  ("https://earthquake.usgs.gov/earthquakes/feed/v1.0/summary/4.5_month.geojson" :>
     "727cac435aff60889d3e5110ace90a3f") @@
  ("https://earthquake.usgs.gov/earthquakes/feed/v1.0/summary/2.5_hour.geojson" :>
     "c069e4a8e009578318a60e7319e9de35") @@
  ("https://earthquake.usgs.gov/earthquakes/feed/v1.0/summary/2.5_day.geojson" :>
     "c4fcbae5af7d03d37e8804cbb445b802") @@
  ("https://earthquake.usgs.gov/earthquakes/feed/v1.0/summary/2.5_week.geojson" :>
     "7cc3f170949aa71ae974b44d2a6b4110") @@
  ("https://earthquake.usgs.gov/earthquakes/feed/v1.0/summary/2.5_month.geojson" :>
     "1428b117c3388a7794c79bc0a6d90198") @@
  ("https://earthquake.usgs.gov/earthquakes/feed/v1.0/summary/1.0_hour.geojson" :>
     "756bc4ed0fd4fb691b5ef3119a3bd474") @@
  ("https://earthquake.usgs.gov/earthquakes/feed/v1.0/summary/1.0_day.geojson" :>
     "2abb6cdb0aa45f918ed1b2bd6f38e221") @@
  ("https://earthquake.usgs.gov/earthquakes/feed/v1.0/summary/1.0_week.geojson" :>
     "b90e3a697bd8385f57ecb9283d0b6a85") @@
  ("https://earthquake.usgs.gov/earthquakes/feed/v1.0/summary/1.0_month.geojson" :>
     "716445706254567e2c802c59c6ca4c0a") @@
  ("https://earthquake.usgs.gov/earthquakes/feed/v1.0/summary/all_hour.geojson" :>
     "2f374923c0895b83cbf20c5d3aa0bb81") @@
  ("https://earthquake.usgs.gov/earthquakes/feed/v1.0/summary/all_day.geojson" :>
     "9e9def737e1c7807fa8f69ca791b153e") @@
  ("https://earthquake.usgs.gov/earthquakes/feed/v1.0/summary/all_week.geojson" :>
     "9d8c70f8ff9ef16bc413b19ec9fad822") @@
  ("https://earthquake.usgs.gov/earthquakes/feed/v1.0/summary/all_month.geojson" :>
     "83a5c037fe6fadda63f4b66a8fb070c9")

\* one file name for every feed
get_cache_filename_fixed(feed_url) ==
  CACHE_DIR \o "/" \o "earthquake_data" \o ".json"

get_cache_filename(feed_url) ==
  CACHE_DIR \o "/" \o "earthquake_data_" \o md5[feed_url] \o ".json"


(* ------------------------------- JSON ---------------------------------- *)
\* A scalar is a string or a number; a payload is a Python dict, written as
\* the sequence of its <<key, value>> members in insertion order (keys are
\* unique).  A file holds text, written as the sequence of its JSON tokens.
Keys == {"type", "count"}
Scalars == { [t |-> "str", v |-> "1"], [t |-> "num", v |-> "1"] }

Min(a, b) == IF a <= b THEN a ELSE b

IsDict(d) ==
  \A i, j \in DOMAIN d : (d[i][1] = d[j][1]) => (i = j)

\* the bodies the provider answers with: an empty object, one member, and
\* two members with a string and a number
Payloads ==
  { d \in { <<>>,
            << <<"type", [t |-> "str", v |-> "1"]>> >>,
            << <<"type", [t |-> "num", v |-> "1"]>>,
               <<"count", [t |-> "str", v |-> "1"]>> >> } : IsDict(d) }

Quote(s) == "\"" \o s \o "\""

\* a writer that does not quote strings
EncodeScalar_unquoted(x) == x.v

EncodeScalar(x) == IF x.t = "str" THEN Quote(x.v) ELSE x.v

RECURSIVE EncodeMembers(_)
EncodeMembers(d) ==
  IF d = <<>> THEN <<>>
  ELSE LET m == <<Quote(d[1][1]), ":", EncodeScalar(d[1][2])>>
       IN IF Len(d) = 1 THEN m
          ELSE m \o <<",">> \o EncodeMembers(Tail(d))

\* json.dump(data, f): the text written for a dict
json_dump(d) == <<"{">> \o EncodeMembers(d) \o <<"}">>

IsKeyToken(tok) == \E k \in Keys : Quote(k) = tok
DecodeKey(tok) == CHOOSE k \in Keys : Quote(k) = tok
IsScalarToken(tok) == \E x \in Scalars : EncodeScalar(x) = tok
DecodeScalar(tok) == CHOOSE x \in Scalars : EncodeScalar(x) = tok

\* dict[key] = value: a repeated key keeps its position and takes the new value
DictSet(d, k, x) ==
  IF \E i \in DOMAIN d : d[i][1] = k
  THEN [i \in DOMAIN d |-> IF d[i][1] = k THEN <<k, x>> ELSE d[i]]
  ELSE Append(d, <<k, x>>)

ParseFail == [ok |-> FALSE, value |-> <<>>]

RECURSIVE ParseMembers(_, _)
ParseMembers(body, acc) ==
  IF Len(body) < 3 THEN ParseFail
  ELSE IF ~(IsKeyToken(body[1]) /\ body[2] = ":" /\ IsScalarToken(body[3]))
  THEN ParseFail
  ELSE LET acc2 == DictSet(acc, DecodeKey(body[1]), DecodeScalar(body[3]))
       IN IF Len(body) = 3 THEN [ok |-> TRUE, value |-> acc2]
          ELSE IF body[4] = "," THEN ParseMembers(SubSeq(body, 5, Len(body)), acc2)
          ELSE ParseFail

\* json.load(f): ok with the parsed dict, or not ok (json.JSONDecodeError)
json_load(text) ==
  IF Len(text) < 2 THEN ParseFail
  ELSE IF text[1] # "{" \/ text[Len(text)] # "}" THEN ParseFail
  ELSE IF Len(text) = 2 THEN [ok |-> TRUE, value |-> <<>>]
  ELSE ParseMembers(SubSeq(text, 2, Len(text) - 1), <<>>)

(* ------------------------------- state --------------------------------- *)
VARIABLES
  now,        \* time.time(), in seconds
  ticks,      \* clock advances so far
  calls,      \* exposed-operation calls so far
  dirExists,  \* os.path.exists(CACHE_DIR)
  files,      \* path -> <<>> (no file) or <<[content, mtime]>>
  last,       \* the most recent call: its input, the branches it took, the
              \* number of requests.get calls it issued (net), its result
  fetched,    \* feed -> <<>> or <<[t, data]>>: its latest call that returned a fetched payload
  readFailed, \* feeds whose cache read raised IOError since that call
  listed,     \* the value get_available_feeds returned last
  callers,    \* concurrent callers: where each is in the handler, the data it
              \* fetched, the offset of its open file, what it read, its result
  lastWriter  \* the caller that wrote to the cache file last (0: none yet)

vars == <<now, ticks, calls, dirExists, files, last, fetched,
          readFailed, listed, callers, lastWriter>>

\* the state of the single-caller operations, and of the concurrent callers
seqVars == <<ticks, calls, last, fetched, readFailed, listed>>
concVars == <<callers, lastWriter>>

\* the clock advances between calls by one of these amounts
Steps == {CACHE_DURATION - 1, CACHE_DURATION}

\* identifiers callers pass: a prefix of the catalog and one unknown name
CallFeeds == { get_available_feeds[i] : i \in 1..MaxFeeds } \cup {"bogus_feed"}

\* the catalog feeds among them, and the cache paths of these feeds
Feeds == CallFeeds \cap DOMAIN feed_urls
Paths == { get_cache_filename(feed_urls[f]) : f \in Feeds }

\* results of a call: the returned value, or the exception that left the call
Payload(d) == [kind |-> "payload", msg |-> "", data |-> d]
Error(m) == [kind |-> "error", msg |-> m, data |-> <<>>]
Fault(exc) == [kind |-> "fault", msg |-> exc, data |-> <<>>]

\* outcomes of requests.get + raise_for_status + response.json
NetFailures == {"timeout", "connection", "status"}
NetOutcomes == NetFailures \cup {"bad_body", "ok"}
\* str(e) of the requests.RequestException raised
Details ==
  ("timeout" :> "Read timed out") @@
  ("connection" :> "Connection refused") @@
  ("status" :> "503 Server Error") @@
  ("bad_body" :> "Expecting value")

\* outcomes of open(cache_file, 'w') + json.dump + close
WriteOutcomes == {"ok", "open_fail", "io_fail"}

\* the callers of the concurrent executions, and a caller that has not started
Callers == 1..MaxCallers
Idle ==
  [pc |-> "start", data |-> <<>>, off |-> 0, seen |-> "none", result |-> Error("")]

NoCall ==
  [op |-> "none", feed |-> "", t |-> 0, cache |-> "skip", got |-> "none",
   net |-> 0, result |-> Error("")]

Init ==
  /\ now = 0
  /\ ticks = 0
  /\ calls = 0
  /\ dirExists \in BOOLEAN
  /\ files = [p \in Paths |-> <<>>]
  /\ last = NoCall
  /\ fetched = [f \in Feeds |-> <<>>]
  /\ readFailed = {}
  /\ listed = <<>>
  /\ callers = [c \in Callers |-> Idle]
  /\ lastWriter = 0

(* ----------------------------- operations ------------------------------ *)
\* ensure_cache_dir(): whether it returns (os.makedirs may raise OSError) and
\* whether the directory exists afterwards
ensure_cache_dir(mk) ==
  IF ~dirExists
  THEN [returns |-> mk, dirExists |-> mk]
  ELSE [returns |-> TRUE, dirExists |-> TRUE]

\* the comparison the wrong way round: only old files count as valid
is_cache_valid_inverted(cache_file) ==
  IF files[cache_file] = <<>> THEN FALSE
  ELSE LET file_age == now - files[cache_file][1].mtime
       IN file_age > CACHE_DURATION

\* the boundary included: a file of age CACHE_DURATION still counts as valid
is_cache_valid_inclusive(cache_file) ==
  IF files[cache_file] = <<>> THEN FALSE
  ELSE LET file_age == now - files[cache_file][1].mtime
       IN file_age <= CACHE_DURATION

\* is_cache_valid(cache_file)
is_cache_valid(cache_file) ==
  IF files[cache_file] = <<>> THEN FALSE
  ELSE LET file_age == now - files[cache_file][1].mtime
       IN file_age < CACHE_DURATION

\* what one run of the handler leaves behind
Outcome(res, dir, fs, cache, got) ==
  [result |-> res, dirExists |-> dir, files |-> fs, cache |-> cache, got |-> got,
   net |-> IF got = "none" THEN 0 ELSE 1]

\* a write that removes the file when it fails midway
CacheTheData_cleanup(cache_file, net, data, wr, n, dir, cache) ==
  LET text == json_dump(data) IN
  IF wr = "open_fail"
  THEN Outcome(Fault("OSError"), dir, files, cache, net)
  ELSE IF wr = "io_fail"
  THEN Outcome(Fault("OSError"), dir, [files EXCEPT ![cache_file] = <<>>],
               cache, net)
  ELSE Outcome(Payload(data), dir,
               [files EXCEPT ![cache_file] =
                  <<[content |-> text, mtime |-> now]>>],
               cache, net)

\* lines 96-100: write the fetched data to the cache file and return it
CacheTheData(cache_file, net, data, wr, n, dir, cache) ==
  LET text == json_dump(data) IN
  IF wr = "open_fail"
  THEN Outcome(Fault("OSError"), dir, files, cache, net)
  ELSE IF wr = "io_fail"
  THEN Outcome(Fault("OSError"), dir,
               [files EXCEPT ![cache_file] =
                  <<[content |-> SubSeq(text, 1, n), mtime |-> now]>>],
               cache, net)
  ELSE Outcome(Payload(data), dir,
               [files EXCEPT ![cache_file] =
                  <<[content |-> text, mtime |-> now]>>],
               cache, net)

\* the cache file opened for writing before the request: a failed fetch
\* leaves it empty
FetchFreshData_open_first(cache_file, net, caught, data, wr, n, dir, cache) ==
  IF net \in NetFailures \/ net = "bad_body"
  THEN Outcome(Error("Failed to fetch earthquake data: " \o Details[net]), dir,
               [files EXCEPT ![cache_file] = <<[content |-> <<>>, mtime |-> now]>>],
               cache, net)
  ELSE CacheTheData(cache_file, net, data, wr, n, dir, cache)

\* a failed fetch answered from the old cache file when it still parses
FetchFreshData_stale_fallback(cache_file, net, caught, data, wr, n, dir, cache) ==
  IF net \in NetFailures \/ net = "bad_body"
  THEN IF files[cache_file] # <<>> /\ json_load(files[cache_file][1].content).ok
       THEN Outcome(Payload(json_load(files[cache_file][1].content).value),
                    dir, files, cache, net)
       ELSE Outcome(Error("Failed to fetch earthquake data: " \o Details[net]),
                    dir, files, cache, net)
  ELSE CacheTheData(cache_file, net, data, wr, n, dir, cache)

\* raise_for_status outside the try block: an HTTP error status is not caught
FetchFreshData_status_uncaught(cache_file, net, caught, data, wr, n, dir, cache) ==
  IF net = "status"
  THEN Outcome(Fault("HTTPError"), dir, files, cache, net)
  ELSE IF net \in NetFailures
  THEN Outcome(Error("Failed to fetch earthquake data: " \o Details[net]),
               dir, files, cache, net)
  ELSE IF net = "bad_body"
  THEN IF caught
       THEN Outcome(Error("Failed to fetch earthquake data: " \o Details[net]),
                    dir, files, cache, net)
       ELSE Outcome(Fault("ValueError"), dir, files, cache, net)
  ELSE CacheTheData(cache_file, net, data, wr, n, dir, cache)

\* lines 90-102: fetch fresh data
FetchFreshData(cache_file, net, caught, data, wr, n, dir, cache) ==
  IF net \in NetFailures
  THEN Outcome(Error("Failed to fetch earthquake data: " \o Details[net]),
               dir, files, cache, net)
  ELSE IF net = "bad_body"
  THEN IF caught
       THEN Outcome(Error("Failed to fetch earthquake data: " \o Details[net]),
                    dir, files, cache, net)
       ELSE Outcome(Fault("ValueError"), dir, files, cache, net)
  ELSE CacheTheData(cache_file, net, data, wr, n, dir, cache)

\* a cache hit that touches the file (its modification time becomes now)
fetch_earthquake_data_touch(feed_type, mk, rd, net, caught, data, wr, n) ==
  IF ~ensure_cache_dir(mk).returns
  THEN Outcome(Fault("OSError"), ensure_cache_dir(mk).dirExists, files, "skip", "none")
  ELSE IF feed_type \notin DOMAIN feed_urls
  THEN Outcome(Error("Invalid feed type: " \o feed_type), TRUE, files, "skip", "none")
  ELSE LET feed_url == feed_urls[feed_type]
           cache_file == get_cache_filename(feed_url)
       IN IF ~is_cache_valid(cache_file)
          THEN FetchFreshData(cache_file, net, caught, data, wr, n, TRUE, "miss")
          ELSE IF ~rd
          THEN FetchFreshData(cache_file, net, caught, data, wr, n, TRUE, "ioerror")
          ELSE LET loaded == json_load(files[cache_file][1].content)
               IN IF loaded.ok
                  THEN Outcome(Payload(loaded.value), TRUE,
                               [files EXCEPT ![cache_file][1].mtime = now],
                               "hit", "none")
                  ELSE FetchFreshData(cache_file, net, caught, data, wr, n,
                                      TRUE, "decodeerror")

\* fetch_earthquake_data(feed_type), under the outcomes of the system calls
\* it makes: mk (os.makedirs succeeds), rd (the cache file opens and reads),
\* net / data (the provider's answer), caught (response.json raises a
\* RequestException subclass, as requests >= 2.27 does, or a plain
\* ValueError), wr / n (the cache write; n tokens reach the file when it fails)
fetch_earthquake_data(feed_type, mk, rd, net, caught, data, wr, n) ==
  IF ~ensure_cache_dir(mk).returns
  THEN Outcome(Fault("OSError"), ensure_cache_dir(mk).dirExists, files, "skip", "none")
  ELSE IF feed_type \notin DOMAIN feed_urls
  THEN Outcome(Error("Invalid feed type: " \o feed_type), TRUE, files, "skip", "none")
  ELSE LET feed_url == feed_urls[feed_type]
           cache_file == get_cache_filename(feed_url)
       IN IF ~is_cache_valid(cache_file)
          THEN FetchFreshData(cache_file, net, caught, data, wr, n, TRUE, "miss")
          ELSE IF ~rd
          THEN FetchFreshData(cache_file, net, caught, data, wr, n, TRUE, "ioerror")
          ELSE LET loaded == json_load(files[cache_file][1].content)
               IN IF loaded.ok
                  THEN Outcome(Payload(loaded.value), TRUE, files, "hit", "none")
                  ELSE FetchFreshData(cache_file, net, caught, data, wr, n,
                                      TRUE, "decodeerror")

(* ------------------------------ actions -------------------------------- *)
\* the answers the provider and the cache write can give to one call
NetChoices ==
  { [net |-> x, caught |-> TRUE, data |-> <<>>, wr |-> "ok", n |-> 0] :
      x \in NetFailures }
  \cup { [net |-> "bad_body", caught |-> c, data |-> <<>>, wr |-> "ok", n |-> 0] :
      c \in BOOLEAN }
  \cup { [net |-> "ok", caught |-> TRUE, data |-> d, wr |-> w, n |-> 0] :
      d \in Payloads, w \in {"ok", "open_fail"} }
  \cup UNION { { [net |-> "ok", caught |-> TRUE, data |-> d, wr |-> "io_fail", n |-> k] :
                   k \in 0..Min(MaxPartial, Len(json_dump(d)) - 1) } : d \in Payloads }

\* an answer, for the calls that never look at one
NoAnswer == [net |-> "ok", caught |-> TRUE, data |-> <<>>, wr |-> "ok", n |-> 0]

\* os.makedirs runs, and can fail, only when the directory is missing
MkdirOutcomes == IF dirExists THEN {TRUE} ELSE BOOLEAN

\* the cache file is opened, and the read can fail, only in the calls that
\* get as far as line 84
ReadOutcomes(feed_type, mk) ==
  IF fetch_earthquake_data(feed_type, mk, FALSE, NoAnswer.net, NoAnswer.caught,
                           NoAnswer.data, NoAnswer.wr, NoAnswer.n).cache = "ioerror"
  THEN BOOLEAN ELSE {TRUE}

\* the provider is asked only in the calls that get as far as line 92
Answers(feed_type, mk, rd) ==
  IF fetch_earthquake_data(feed_type, mk, rd, NoAnswer.net, NoAnswer.caught,
                           NoAnswer.data, NoAnswer.wr, NoAnswer.n).net = 1
  THEN NetChoices ELSE {NoAnswer}

FetchEarthquakeData ==
  /\ calls < MaxCalls
  /\ \E feed_type \in CallFeeds, mk \in MkdirOutcomes :
     \E rd \in ReadOutcomes(feed_type, mk) :
     \E e \in Answers(feed_type, mk, rd) :
       LET o == fetch_earthquake_data(feed_type, mk, rd, e.net, e.caught,
                                      e.data, e.wr, e.n)
           got == o.result.kind = "payload" /\ o.net = 1
       IN /\ dirExists' = o.dirExists
          /\ files' = o.files
          /\ last' = [op |-> "fetch", feed |-> feed_type, t |-> now,
                      cache |-> o.cache, got |-> o.got, net |-> o.net,
                      result |-> o.result]
          /\ fetched' = IF got
                        THEN [fetched EXCEPT ![feed_type] =
                                <<[t |-> now, data |-> o.result.data]>>]
                        ELSE fetched
          /\ readFailed' = IF got THEN readFailed \ {feed_type}
                           ELSE IF o.cache = "ioerror"
                           THEN readFailed \cup {feed_type}
                           ELSE readFailed
  /\ calls' = calls + 1
  /\ UNCHANGED <<now, ticks, listed>>
  /\ UNCHANGED concVars

GetAvailableFeeds ==
  /\ calls < MaxCalls
  /\ calls' = calls + 1
  /\ listed' = get_available_feeds
  /\ last' = [NoCall EXCEPT !.op = "feeds", !.t = now]
  /\ UNCHANGED <<now, ticks, dirExists, files, fetched, readFailed>>
  /\ UNCHANGED concVars

\* time passes between calls
Tick ==
  /\ ticks < MaxTicks
  /\ \E d \in Steps : now' = now + d
  /\ ticks' = ticks + 1
  /\ UNCHANGED <<calls, dirExists, files, last, fetched, readFailed, listed>>
  /\ UNCHANGED concVars

Next == FetchEarthquakeData \/ GetAvailableFeeds \/ Tick

Spec == Init /\ [][Next]_vars

(* ------------------------- concurrent callers -------------------------- *)
\* Several callers run fetch_earthquake_data for the same catalog feed at the
\* same time; the steps of one call interleave freely with the steps of the
\* others.  No system call fails here and every writer runs to its close.
ConcFeed == get_available_feeds[1]
ConcFile == get_cache_filename(feed_urls[ConcFeed])

\* write(2) of toks at offset off of a file descriptor opened without O_APPEND:
\* the tokens replace what is there, the rest of the file stays, and a write
\* past the end (the file was truncated meanwhile) leaves a hole of NULs
WriteAt(content, off, toks) ==
  LET end == off + Len(toks)
      size == IF Len(content) > end THEN Len(content) ELSE end
  IN [i \in 1..size |->
        IF i > off /\ i <= end THEN toks[i - off]
        ELSE IF i <= Len(content) THEN content[i]
        ELSE "NUL"]

\* the text is the whole dump of a payload
Complete(content) == \E d \in Payloads : content = json_dump(d)

\* lines 49-82: the directory, the catalog lookup and the freshness test
CheckCache(c) ==
  /\ callers[c].pc = "start"
  /\ dirExists' = ensure_cache_dir(TRUE).dirExists
  /\ callers' = [callers EXCEPT ![c].pc =
                   IF is_cache_valid(ConcFile) THEN "read" ELSE "fetch"]
  /\ UNCHANGED <<now, files, lastWriter>>
  /\ UNCHANGED seqVars

\* lines 83-88: open the cache file, read and parse it
ReadCache(c) ==
  /\ callers[c].pc = "read"
  /\ LET content == files[ConcFile][1].content
         loaded == json_load(content)
         seen == IF Complete(content) THEN "complete" ELSE "incomplete"
     IN callers' = [callers EXCEPT ![c] =
                      IF loaded.ok
                      THEN [@ EXCEPT !.pc = "done", !.seen = seen,
                                     !.result = Payload(loaded.value)]
                      ELSE [@ EXCEPT !.pc = "fetch", !.seen = seen]]
  /\ UNCHANGED <<now, dirExists, files, lastWriter>>
  /\ UNCHANGED seqVars

\* lines 92-94 and 101-102: the request and its answer
FetchFresh(c) ==
  /\ callers[c].pc = "fetch"
  /\ \/ \E d \in Payloads :
          callers' = [callers EXCEPT ![c].pc = "open", ![c].data = d]
     \/ \E x \in NetFailures :
          callers' = [callers EXCEPT ![c].pc = "done",
                                     ![c].result =
                                       Error("Failed to fetch earthquake data: "
                                             \o Details[x])]
  /\ UNCHANGED <<now, dirExists, files, lastWriter>>
  /\ UNCHANGED seqVars

\* line 97: open(cache_file, 'w') creates or truncates the file
OpenForWrite(c) ==
  /\ callers[c].pc = "open"
  /\ files' = [files EXCEPT ![ConcFile] = <<[content |-> <<>>, mtime |-> now]>>]
  /\ callers' = [callers EXCEPT ![c].pc = "write", ![c].off = 0]
  /\ UNCHANGED <<now, dirExists, lastWriter>>
  /\ UNCHANGED seqVars

\* line 98: json.dump hands the text to the file in one or more writes, each
\* at the caller's own offset
WriteChunk(c) ==
  /\ callers[c].pc = "write"
  /\ LET text == json_dump(callers[c].data)
         off == callers[c].off
     IN /\ off < Len(text)
        /\ \E k \in 1..(Len(text) - off) :
             /\ files' = [files EXCEPT ![ConcFile] =
                            <<[content |-> WriteAt(files[ConcFile][1].content, off,
                                                    SubSeq(text, off + 1, off + k)),
                               mtime |-> now]>>]
             /\ callers' = [callers EXCEPT ![c].off = off + k]
  /\ lastWriter' = c
  /\ UNCHANGED <<now, dirExists>>
  /\ UNCHANGED seqVars

\* lines 98-100: the with block closes the file and the call returns data
CloseAndReturn(c) ==
  /\ callers[c].pc = "write"
  /\ callers[c].off = Len(json_dump(callers[c].data))
  /\ callers' = [callers EXCEPT ![c].pc = "done",
                                ![c].result = Payload(callers[c].data)]
  /\ UNCHANGED <<now, dirExists, files, lastWriter>>
  /\ UNCHANGED seqVars

NextConc ==
  \E c \in Callers :
    \/ CheckCache(c) \/ ReadCache(c) \/ FetchFresh(c)
    \/ OpenForWrite(c) \/ WriteChunk(c) \/ CloseAndReturn(c)

SpecConc == Init /\ [][NextConc]_vars

AllDone == \A c \in Callers : callers[c].pc = "done"

TypeOK ==
  /\ now \in Nat /\ ticks \in 0..MaxTicks /\ calls \in 0..MaxCalls
  /\ dirExists \in BOOLEAN
  /\ \A p \in Paths : Len(files[p]) <= 1
  /\ last.op \in {"none", "fetch", "feeds"}
  /\ \A p \in Paths : files[p] # <<>> => dirExists /\ files[p][1].mtime <= now

(* ------------------------------ properties ----------------------------- *)
IsFetch == last.op = "fetch"
\* the step is a call of fetch_earthquake_data
FetchStep == calls' = calls + 1 /\ last'.op = "fetch"
PathOf(f) == get_cache_filename(feed_urls[f])
\* no two catalog feeds share a cache file
CachePathsDistinct ==
  \A a, b \in DOMAIN feed_urls : a # b => PathOf(a) # PathOf(b)
InvalidFeedError(f) == Error("Invalid feed type: " \o f)
NetworkError(x) == Error("Failed to fetch earthquake data: " \o Details[x])

\* C1: every call of fetch_earthquake_data returns a value, a payload or an
\* error object, and never leaves by an exception, whatever the outcome of the
\* directory creation, cache read, request, body parsing and cache write.
C1_AlwaysReturns ==
  IsFetch => last.result.kind \in {"payload", "error"}

\* C2: a call returns the error "Invalid feed type: <feedType>" exactly when
\* its feed identifier is not a key of the catalog.
C2_InvalidFeedError ==
  IsFetch =>
    /\ last.feed \notin DOMAIN feed_urls => last.result = InvalidFeedError(last.feed)
    /\ last.feed \in DOMAIN feed_urls => last.result # InvalidFeedError(last.feed)

\* C3: a call with an unknown feed identifier leaves the cache directory's
\* existence and every cache file unchanged and issues no network request.
C3_UnknownFeedNoActivity ==
  [][ (FetchStep /\ last'.feed \notin DOMAIN feed_urls)
        => /\ dirExists' = dirExists
           /\ files' = files
           /\ last'.net = 0 ]_vars

\* C4 as stated: after a call for feed f fetched a payload from the network at
\* time t, every later call for f before t + TTL returns that payload and
\* issues no network request.
C4_Original ==
  [][ \A f \in Feeds :
        (/\ FetchStep /\ last'.feed = f
         /\ fetched[f] # <<>>
         /\ now < fetched[f][1].t + CACHE_DURATION)
        => /\ last'.result = Payload(fetched[f][1].data)
           /\ last'.net = 0 ]_vars

\* C4 (amended): the same, for the calls made while no read of the feed's cache
\* entry has failed since the fetch (the call's own read included); a read that
\* fails sends the call to the network.
C4_Idempotent ==
  [][ \A f \in Feeds :
        (/\ FetchStep /\ last'.feed = f
         /\ fetched[f] # <<>>
         /\ now < fetched[f][1].t + CACHE_DURATION
         /\ f \notin readFailed
         /\ last'.cache # "ioerror")
        => /\ last'.result = Payload(fetched[f][1].data)
           /\ last'.net = 0 ]_vars

\* a hit in the last second of the window
C4_HitWitness ==
  /\ IsFetch /\ last.feed \in DOMAIN feed_urls
  /\ last.cache = "hit" /\ last.net = 0
  /\ fetched[last.feed] # <<>>
  /\ last.t = fetched[last.feed][1].t + CACHE_DURATION - 1
  /\ last.result = Payload(fetched[last.feed][1].data)

\* C5: a call treats the cache entry as valid (goes on to read it) exactly when
\* the entry exists and now - mtime < 3600; an entry of age 3600 or more is
\* not read and the call issues a network request.
C5_FreshnessBoundary ==
  [][ \A f \in Feeds :
        (FetchStep /\ last'.feed = f)
        => LET p == PathOf(f)
               exists == files[p] # <<>>
           IN /\ (last'.cache \in {"hit", "ioerror", "decodeerror"})
                   <=> (exists /\ now - files[p][1].mtime < 3600)
              /\ (exists /\ now - files[p][1].mtime >= 3600)
                   => (last'.cache = "miss" /\ last'.net = 1) ]_vars

\* a call made when a parseable entry is exactly 3600 s old went to the network
\* (the request failed, so the entry is still there to be seen)
C5_BoundaryWitness ==
  /\ IsFetch /\ last.feed \in DOMAIN feed_urls
  /\ last.cache = "miss" /\ last.net = 1 /\ last.result.kind = "error"
  /\ files[PathOf(last.feed)] # <<>>
  /\ last.t - files[PathOf(last.feed)][1].mtime = 3600
  /\ json_load(files[PathOf(last.feed)][1].content).ok

\* C6: a call that finds a fresh entry it cannot read or parse issues a network
\* request; if the fetch succeeds it returns the payload and the entry holds
\* it, and if the fetch fails the result is the network-failure error.
C6_CorruptFallback ==
  [][ \A f \in Feeds :
        (FetchStep /\ last'.feed = f /\ last'.cache \in {"ioerror", "decodeerror"})
        => /\ last'.net = 1
           /\ last'.got = "ok"
                => /\ last'.result.kind = "payload"
                   /\ files'[PathOf(f)] =
                        <<[content |-> json_dump(last'.result.data), mtime |-> now]>>
           /\ last'.got \in NetFailures
                => last'.result = NetworkError(last'.got) ]_vars

\* C7: a call whose network fetch fails by a timeout, a connection error or a
\* non-success status returns "Failed to fetch earthquake data: <details>".
C7_NetworkFailureError ==
  IsFetch /\ last.got \in NetFailures
    => /\ last.feed \in DOMAIN feed_urls
       /\ last.result = NetworkError(last.got)

C7_FailureWitness ==
  /\ IsFetch /\ last.got = "status" /\ last.net = 1
  /\ last.result = Error("Failed to fetch earthquake data: 503 Server Error")

\* C8: a call whose network fetch succeeds issued one request, returns the
\* fetched payload and leaves the feed's entry holding that payload with the
\* time of the write as modification time, whether or not an entry existed.
C8_FetchStores ==
  [][ \A f \in Feeds :
        (FetchStep /\ last'.feed = f /\ last'.got = "ok")
        => /\ last'.net = 1
           /\ last'.result.kind = "payload"
           /\ files'[PathOf(f)] =
                <<[content |-> json_dump(last'.result.data), mtime |-> now]>> ]_vars

\* C9: once a fetch has written payload d to a feed's entry, parsing the entry
\* yields d: right after the write and at every time within the TTL window
\* while no read of the entry has failed (nothing else rewrites it).
C9_RoundTrip ==
  /\ (IsFetch /\ last.got = "ok" /\ last.result.kind = "payload")
       => json_load(files[PathOf(last.feed)][1].content)
            = [ok |-> TRUE, value |-> last.result.data]
  /\ \A f \in Feeds :
       (/\ fetched[f] # <<>>
        /\ f \notin readFailed
        /\ now < fetched[f][1].t + CACHE_DURATION)
       => /\ files[PathOf(f)] # <<>>
          /\ json_load(files[PathOf(f)][1].content)
               = [ok |-> TRUE, value |-> fetched[f][1].data]

\* a payload with a string member was written and read back later in the window
C9_ReadBackWitness ==
  /\ IsFetch /\ last.feed \in DOMAIN feed_urls /\ last.cache = "hit"
  /\ fetched[last.feed] # <<>>
  /\ last.t > fetched[last.feed][1].t
  /\ last.result.data = fetched[last.feed][1].data
  /\ Len(last.result.data) >= 1
  /\ last.result.data[1][2].t = "str"

\* C10: get_available_feeds returns the keys of feed_urls, each once, in the
\* order of the table; the listed identifiers are exactly those that resolve.
C10_FeedsMatchCatalog ==
  listed # <<>>
    => /\ listed = [i \in DOMAIN feed_urls_items |-> feed_urls_items[i][1]]
       /\ \A i, j \in DOMAIN listed : listed[i] = listed[j] => i = j
       /\ { listed[i] : i \in DOMAIN listed } = DOMAIN feed_urls

C10_ListedWitness ==
  /\ listed # <<>> /\ Len(listed) = 20
  /\ listed[1] = "significant_hour" /\ listed[20] = "all_month"

\* C11: when every concurrent caller has finished and some of them wrote the
\* cache file, the file holds exactly the text of the caller that wrote last.
C11_LastWriterWins ==
  (AllDone /\ lastWriter # 0)
    => /\ files[ConcFile] # <<>>
       /\ files[ConcFile][1].content = json_dump(callers[lastWriter].data)

\* C12: in an execution where every writer ran its open, writes and close to
\* the end, no caller read a fresh entry holding an incomplete text.
C12_NoPartialRead ==
  AllDone => \A c \in Callers : callers[c].seen # "incomplete"

\* C13: a call issues at most one network request and ends in one of the
\* states of the progression: no request for an unknown identifier or a cache
\* hit that parses; otherwise exactly one request, ending in Success (the
\* payload) or NetworkError (the network-failure error).
C13_CallProgression ==
  IsFetch =>
    /\ last.net \in {0, 1}
    /\ last.feed \notin DOMAIN feed_urls => last.net = 0
    /\ last.feed \in DOMAIN feed_urls =>
         \/ /\ last.cache = "hit" /\ last.net = 0
            /\ last.result.kind = "payload"
         \/ /\ last.cache \in {"miss", "ioerror", "decodeerror"} /\ last.net = 1
            /\ \/ last.result.kind = "payload"
               \/ last.result = NetworkError(last.got)

\* C14: a call that returns an error result leaves every cache entry as it
\* was: existence, content and modification time.
C14_ErrorLeavesCache ==
  [][ (FetchStep /\ last'.result.kind = "error") => files' = files ]_vars

\* a fresh entry that does not parse is still there, unchanged, after a call
\* whose fetch failed
C14_CorruptSurvivesWitness ==
  /\ IsFetch /\ last.feed \in DOMAIN feed_urls
  /\ last.cache = "decodeerror" /\ last.result.kind = "error" /\ last.net = 1
  /\ files[PathOf(last.feed)] # <<>>
  /\ ~json_load(files[PathOf(last.feed)][1].content).ok

\* C15: distinct catalog feeds have distinct cache paths, and a call for feed
\* A changes no entry but the one at A's path.
C15_OwnEntryOnly ==
  [][ /\ CachePathsDistinct
      /\ \A a \in Feeds :
           (FetchStep /\ last'.feed = a)
           => \A b \in Feeds \ {a} : files'[PathOf(b)] = files[PathOf(b)] ]_vars

\* a call for one feed wrote its entry while another feed's entry, holding a
\* different text, stayed in place
C15_TwoEntriesWitness ==
  /\ IsFetch /\ last.feed \in Feeds /\ last.got = "ok"
  /\ last.result.kind = "payload"
  /\ \E b \in Feeds \ {last.feed} :
       /\ files[PathOf(b)] # <<>>
       /\ files[PathOf(last.feed)] # <<>>
       /\ files[PathOf(b)][1].content # files[PathOf(last.feed)][1].content
       /\ json_load(files[PathOf(b)][1].content).ok

\* C16: an entry that exists still exists after every step, and a call of
\* get_available_feeds changes neither the directory nor any file.
C16_NeverDeleted ==
  [][ /\ \A p \in Paths : files[p] # <<>> => files'[p] # <<>>
      /\ dirExists => dirExists'
      /\ (calls' = calls + 1 /\ last'.op = "feeds")
           => (files' = files /\ dirExists' = dirExists /\ now' = now) ]_vars

\* an expired entry is still on disk after a call of get_available_feeds
C16_StaleKeptWitness ==
  /\ last.op = "feeds" /\ listed # <<>>
  /\ \E p \in Paths : files[p] # <<>> /\ now - files[p][1].mtime >= CACHE_DURATION

C18_HitDoesNotRefresh ==
  [][ \A f \in Feeds :
        (FetchStep /\ last'.feed = f)
        => /\ last'.cache = "hit"
                => /\ files' = files
                   /\ files[PathOf(f)] # <<>>
                   /\ now < files[PathOf(f)][1].mtime + CACHE_DURATION
           /\ (/\ files[PathOf(f)] # <<>>
               /\ now >= files[PathOf(f)][1].mtime + CACHE_DURATION)
                => last'.net = 1 ]_vars

\* after a hit late in the window the entry still carries the time of the fetch
C18_HitKeepsMtimeWitness ==
  /\ IsFetch /\ last.feed \in Feeds /\ last.cache = "hit"
  /\ fetched[last.feed] # <<>>
  /\ files[PathOf(last.feed)][1].mtime = fetched[last.feed][1].t
  /\ last.t > files[PathOf(last.feed)][1].mtime

\* C19: a payload returned for a catalog feed is one the provider gave for
\* that feed: the one fetched in this call, or, on a cache hit, the one the
\* feed's latest successful fetch got less than TTL before.
C19_OwnFeedPayload ==
  (IsFetch /\ last.feed \in Feeds /\ last.result.kind = "payload")
    => /\ fetched[last.feed] # <<>>
       /\ last.result.data = fetched[last.feed][1].data
       /\ last.got = "ok" => fetched[last.feed][1].t = last.t
       /\ last.cache = "hit"
            => /\ fetched[last.feed][1].t <= last.t
               /\ last.t - fetched[last.feed][1].t < CACHE_DURATION

\* two feeds hold different payloads and the call for the second returned its
\* own
C19_OtherFeedWitness ==
  /\ IsFetch /\ last.feed \in Feeds /\ last.result.kind = "payload"
  /\ \E b \in Feeds \ {last.feed} :
       /\ fetched[b] # <<>>
       /\ fetched[b][1].data # last.result.data
       /\ files[PathOf(b)] # <<>>

====
